---- MODULE Spec2Model ----
(***************************************************************************)
(* remove_chrome_profile.py: removal of one profile entry from Chrome's    *)
(* "Local State" registry file.                                            *)
(*                                                                         *)
(* A JSON object is a Python dict, which keeps insertion order: it is      *)
(* modelled as a sequence of <<key, value>> pairs with distinct keys.  A   *)
(* JSON array is a sequence.  A file's text is a record: the tree it       *)
(* renders and the indentation it is rendered with, or a text json.load    *)
(* rejects (empty, garbage, a cut-off rendering).  A path is the sequence  *)
(* of segments os.path.join glues together.                                *)
(*                                                                         *)
(* The documents are those whose touched fields have the types Chrome      *)
(* writes (objects, arrays of strings, a string).                          *)
(***************************************************************************)
EXTENDS Naturals, Sequences, FiniteSets, TLC

VARIABLES
  platform,          \* sys.platform
  environ,           \* os.environ, as a dict
  profile_id,        \* argument of remove_profile
  dry_run,           \* argument of remove_profile
  canary,            \* argument of remove_profile
  disk,              \* the file at the Local State path of this run
  disk0,             \* history: that file when the run started
  local_state_path,  \* local of remove_profile
  local_state,       \* local of remove_profile: the parsed tree
  f,                 \* mode of the open file object, or "closed"
  buffer,            \* text written to f and not yet on disk
  stdout,            \* what was printed, a sequence of <<kind, argument>>
  exc,               \* the exception that left remove_profile, or "none"
  pc                 \* position in remove_profile

vars == <<platform, environ, profile_id, dry_run, canary, disk, disk0,
          local_state_path, local_state, f, buffer, stdout, exc, pc>>

---------------------------------------------------------------------------
(* Bounds of the model. *)

MaxOrderLen == 2     \* longest profile.profiles_order of a starting document

MaxActiveLen == 3    \* longest profile.last_active_profiles of a starting document

Profiles == {"A", "B"}

---------------------------------------------------------------------------
(* Python values. *)

PyNone == "<None>"

EmptyDict == <<>>

RECURSIVE DictHas(_, _)
DictHas(d, k) ==
  IF d = <<>> THEN FALSE
  ELSE IF Head(d)[1] = k THEN TRUE ELSE DictHas(Tail(d), k)

RECURSIVE DictGet(_, _, _)
DictGet(d, k, default) ==
  IF d = <<>> THEN default
  ELSE IF Head(d)[1] = k THEN Head(d)[2] ELSE DictGet(Tail(d), k, default)

RECURSIVE DictDel(_, _)
DictDel(d, k) ==
  IF d = <<>> THEN <<>>
  ELSE IF Head(d)[1] = k THEN Tail(d) ELSE <<Head(d)>> \o DictDel(Tail(d), k)

RECURSIVE DictSetExisting(_, _, _)
DictSetExisting(d, k, v) ==
  IF d = <<>> THEN <<>>
  ELSE IF Head(d)[1] = k THEN <<(<<k, v>>)>> \o Tail(d)
       ELSE <<Head(d)>> \o DictSetExisting(Tail(d), k, v)

(* Mutant of DictSet: the key is deleted and inserted again, at the end. *)
DictSetMoveToEnd(d, k, v) == Append(DictDel(d, k), <<k, v>>)

DictSet(d, k, v) ==
  IF DictHas(d, k) THEN DictSetExisting(d, k, v) ELSE Append(d, <<k, v>>)

ListContains(s, x) == \E i \in 1..Len(s) : s[i] = x

(* Mutant of ListIndex: the last occurrence. *)
ListIndexLast(s, x) == CHOOSE i \in 1..Len(s) : s[i] = x /\ \A j \in (i + 1)..Len(s) : s[j] # x

ListIndex(s, x) == CHOOSE i \in 1..Len(s) : s[i] = x /\ \A j \in 1..(i - 1) : s[j] # x

ListDelAt(s, i) == SubSeq(s, 1, i - 1) \o SubSeq(s, i + 1, Len(s))

RECURSIVE ListRemove(_, _)
ListRemove(s, x) ==
  IF s = <<>> THEN <<>>
  ELSE IF Head(s) = x THEN Tail(s) ELSE <<Head(s)>> \o ListRemove(Tail(s), x)

(* Mutant of Truthy: a test against None in place of the truth test. *)
TruthyIsNotNone(d) == TRUE

Truthy(d) == d # <<>>

---------------------------------------------------------------------------
(* Paths: os.path.join over segments. *)

PathJoin(a, b) == a \o b

ExpandUser == <<"~">>

(* get_local_state_path, lines 32-49.  The win32 branch reads              *)
(* os.environ['LOCALAPPDATA'], which raises KeyError when it is unset.     *)
ResolveRaises(plat, env) == plat = "win32" /\ ~DictHas(env, "LOCALAPPDATA")

get_local_state_path(plat, env, can) ==
  IF plat = "win32"
  THEN PathJoin(<<DictGet(env, "LOCALAPPDATA", PyNone)>>,
                PathJoin(PathJoin(<<"Google", IF can THEN "Chrome SxS" ELSE "Chrome">>,
                                  <<"User Data">>),
                         <<"Local State">>))
  ELSE IF plat = "darwin"
  THEN PathJoin(ExpandUser,
                PathJoin(<<"Library", "Application Support">>,
                         PathJoin(<<"Google", IF can THEN "Chrome Canary" ELSE "Chrome">>,
                                  <<"Local State">>)))
  ELSE PathJoin(ExpandUser,
                PathJoin(<<IF can THEN ".config/google-chrome-canary"
                                  ELSE ".config/google-chrome">>,
                         <<"Local State">>))

---------------------------------------------------------------------------
(* File text and the json module. *)

Indent == 2

NoTree == <<>>

EmptyText == [kind |-> "empty", indent |-> 0, tree |-> NoTree]

GarbageText == [kind |-> "garbage", indent |-> 0, tree |-> NoTree]

(* json.dumps(obj, indent=n): the complete rendering of obj. *)
JsonDumps(obj, n) == [kind |-> "json", indent |-> n, tree |-> obj]

(* A proper prefix of a rendering: what is on disk when only part of the   *)
(* buffered output has been flushed.                                       *)
CutText(text) == [text EXCEPT !.kind = "cut"]

(* json.load raises JSONDecodeError on anything but a complete rendering.  *)
JsonDecodes(text) == text.kind = "json"

(* json.load: the tree; the indentation of the text is not kept. *)
JsonLoad(text) == text.tree

NoFile == [exists |-> FALSE, text |-> EmptyText]

File(text) == [exists |-> TRUE, text |-> text]

---------------------------------------------------------------------------
(* The registry documents the runs start from. *)

Opt(k, vals) == {<<>>} \cup { <<(<<k, v>>)>> : v \in vals }

Lists(maxlen) == UNION { [1..n -> Profiles] : n \in 0..maxlen }

Metadata(k) == <<(<<"name", k>>)>>

Groups(k) == <<k, "g">>

InfoCaches ==
  { <<>>,
    <<(<<"A", Metadata("A")>>)>>,
    <<(<<"A", Metadata("A")>>), (<<"B", Metadata("B")>>)>> }

VariationGroups ==
  { <<(<<"A", Groups("A")>>)>>,
    <<(<<"A", Groups("A")>>), (<<"B", Groups("B")>>)>> }

ProfileDicts ==
  { ic \o lu \o po \o la \o <<(<<"profiles_created", "2">>)>> :
      ic \in Opt("info_cache", InfoCaches),
      lu \in Opt("last_used", {"A", "Default"}),
      po \in Opt("profiles_order", Lists(MaxOrderLen)),
      la \in Opt("last_active_profiles", Lists(MaxActiveLen)) }

Documents ==
  { <<(<<"browser", "b">>)>> \o pr \o vg \o <<(<<"uninstall_metrics", "u">>)>> :
      pr \in Opt("profile", ProfileDicts),
      vg \in Opt("variations_google_groups", VariationGroups) }

InitialFiles ==
  {NoFile, File(EmptyText), File(GarbageText)}
    \cup { File(JsonDumps(doc, 0)) : doc \in Documents }

(* sys.platform with os.environ: LOCALAPPDATA is a variable of Windows,    *)
(* set by the system there unless the process was started without it.      *)
Environments ==
  { <<"win32", <<(<<"LOCALAPPDATA", "C:/Users/u/AppData/Local">>)>> >>,
    <<"win32", EmptyDict>>,
    <<"darwin", EmptyDict>>,
    <<"linux", EmptyDict>> }

---------------------------------------------------------------------------
(* remove_profile, lines 52-115. *)

Init ==
  /\ \E e \in Environments : platform = e[1] /\ environ = e[2]
  /\ profile_id \in Profiles
  /\ dry_run \in BOOLEAN
  /\ canary \in BOOLEAN
  /\ disk \in InitialFiles
  /\ disk0 = disk
  /\ local_state_path = <<>>
  /\ local_state = NoTree
  /\ f = "closed"
  /\ buffer = EmptyText
  /\ stdout = <<>>
  /\ exc = "none"
  /\ pc = "start"

Say(kind, arg) == Append(stdout, <<kind, arg>>)

Return == pc' = "done"

(* Line 61 on win32 with LOCALAPPDATA unset: KeyError leaves               *)
(* get_local_state_path, remove_profile and main; nothing catches it.      *)
ResolveKeyError ==
  /\ pc = "start"
  /\ ResolveRaises(platform, environ)
  /\ exc' = "KeyError"
  /\ pc' = "raised"
  /\ UNCHANGED <<platform, environ, profile_id, dry_run, canary, disk, disk0,
                 local_state_path, local_state, f, buffer, stdout>>

(* Lines 61-64: the path is resolved and no file is there. *)
FileNotFound ==
  /\ pc = "start"
  /\ ~ResolveRaises(platform, environ)
  /\ ~disk.exists
  /\ local_state_path' = get_local_state_path(platform, environ, canary)
  /\ stdout' = Say("local_state_not_found", local_state_path')
  /\ Return
  /\ UNCHANGED <<platform, environ, profile_id, dry_run, canary, disk, disk0,
                 local_state, f, buffer, exc>>

(* Lines 61-66: the path is resolved, the file is there and is opened      *)
(* 'r+', which neither creates nor truncates it.                           *)
OpenReadWrite ==
  /\ pc = "start"
  /\ ~ResolveRaises(platform, environ)
  /\ disk.exists
  /\ local_state_path' = get_local_state_path(platform, environ, canary)
  /\ f' = "r+"
  /\ pc' = "load"
  /\ UNCHANGED <<platform, environ, profile_id, dry_run, canary, disk, disk0,
                 local_state, buffer, stdout, exc>>

(* Lines 67-71: json.load raises JSONDecodeError; the with block closes f. *)
DecodeError ==
  /\ pc = "load"
  /\ ~JsonDecodes(disk.text)
  /\ stdout' = Say("could_not_decode", local_state_path)
  /\ f' = "closed"
  /\ Return
  /\ UNCHANGED <<platform, environ, profile_id, dry_run, canary, disk, disk0,
                 local_state_path, local_state, buffer, exc>>

(* Lines 67-68: json.load returns; the with block ends and closes f. *)
Load ==
  /\ pc = "load"
  /\ JsonDecodes(disk.text)
  /\ local_state' = JsonLoad(disk.text)
  /\ f' = "closed"
  /\ pc' = "loaded"
  /\ UNCHANGED <<platform, environ, profile_id, dry_run, canary, disk, disk0,
                 local_state_path, buffer, stdout, exc>>

(* Line 73. *)
InfoCacheOf(ls) == DictGet(DictGet(ls, "profile", EmptyDict), "info_cache", EmptyDict)

(* Lines 74-76. *)
NoProfiles ==
  /\ pc = "loaded"
  /\ ~Truthy(InfoCacheOf(local_state))
  /\ stdout' = Say("no_profiles", PyNone)
  /\ Return
  /\ UNCHANGED <<platform, environ, profile_id, dry_run, canary, disk, disk0,
                 local_state_path, local_state, f, buffer, exc>>

(* Lines 78-80. *)
ProfileNotFound ==
  /\ pc = "loaded"
  /\ Truthy(InfoCacheOf(local_state))
  /\ ~DictHas(InfoCacheOf(local_state), profile_id)
  /\ stdout' = Say("profile_not_found", profile_id)
  /\ Return
  /\ UNCHANGED <<platform, environ, profile_id, dry_run, canary, disk, disk0,
                 local_state_path, local_state, f, buffer, exc>>

(* local_state['profile'][k] = v *)
SetInProfile(ls, k, v) == DictSet(ls, "profile", DictSet(DictGet(ls, "profile", EmptyDict), k, v))

(* Line 82: info_cache is the dict held by local_state['profile'].         *)
DelFromInfoCache(ls, id) == SetInProfile(ls, "info_cache", DictDel(InfoCacheOf(ls), id))

(* Mutant of RemoveFromProfilesOrder: line 88 inside the if of line 86. *)
RemoveFromProfilesOrderIfListed(ls, id) ==
  LET profiles_order == DictGet(DictGet(ls, "profile", EmptyDict), "profiles_order", <<>>)
  IN  IF ListContains(profiles_order, id)
      THEN SetInProfile(ls, "profiles_order", ListRemove(profiles_order, id))
      ELSE ls

(* Lines 85-88. *)
RemoveFromProfilesOrder(ls, id) ==
  LET profiles_order == DictGet(DictGet(ls, "profile", EmptyDict), "profiles_order", <<>>)
  IN  SetInProfile(ls, "profiles_order",
                   IF ListContains(profiles_order, id)
                   THEN ListRemove(profiles_order, id)
                   ELSE profiles_order)

(* Mutant of ResetLastUsed: the reset without the test of line 92. *)
ResetLastUsedAlways(ls, id) == SetInProfile(ls, "last_used", "Default")

(* Lines 91-93. *)
ResetLastUsed(ls, id) ==
  LET last_used == DictGet(DictGet(ls, "profile", EmptyDict), "last_used", PyNone)
  IN  IF last_used = id THEN SetInProfile(ls, "last_used", "Default") ELSE ls

(* Lines 96-99. *)
RemoveFromLastActive(ls, id) ==
  LET profile == DictGet(ls, "profile", EmptyDict)
      last_active == DictGet(profile, "last_active_profiles", <<>>)
  IN  IF DictHas(profile, "last_active_profiles") /\ ListContains(last_active, id)
      THEN SetInProfile(ls, "last_active_profiles",
                        ListDelAt(last_active, ListIndex(last_active, id)))
      ELSE ls

(* Mutant of RemoveFromVariations: line 103 tests local_state itself. *)
RemoveFromVariationsTopLevel(ls, id) ==
  LET groups == DictGet(ls, "variations_google_groups", EmptyDict)
  IN  IF DictHas(ls, "variations_google_groups") /\ DictHas(ls, id)
      THEN DictSet(ls, "variations_google_groups", DictDel(groups, id))
      ELSE ls

(* Lines 102-104. *)
RemoveFromVariations(ls, id) ==
  LET groups == DictGet(ls, "variations_google_groups", EmptyDict)
  IN  IF DictHas(ls, "variations_google_groups") /\ DictHas(groups, id)
      THEN DictSet(ls, "variations_google_groups", DictDel(groups, id))
      ELSE ls

(* Lines 82-104, in the order of the code. *)
ApplyEdits(ls, id) ==
  RemoveFromVariations(
    RemoveFromLastActive(
      ResetLastUsed(
        RemoveFromProfilesOrder(
          DelFromInfoCache(ls, id), id), id), id), id)

(* Mutant of Edit: no test of line 78 before the edits. *)
EditUnchecked ==
  /\ pc = "loaded"
  /\ Truthy(InfoCacheOf(local_state))
  /\ local_state' = ApplyEdits(local_state, profile_id)
  /\ pc' = "edited"
  /\ UNCHANGED <<platform, environ, profile_id, dry_run, canary, disk, disk0,
                 local_state_path, f, buffer, stdout, exc>>

(* Lines 73-104 when both guards pass. *)
Edit ==
  /\ pc = "loaded"
  /\ Truthy(InfoCacheOf(local_state))
  /\ DictHas(InfoCacheOf(local_state), profile_id)
  /\ local_state' = ApplyEdits(local_state, profile_id)
  /\ pc' = "edited"
  /\ UNCHANGED <<platform, environ, profile_id, dry_run, canary, disk, disk0,
                 local_state_path, f, buffer, stdout, exc>>

(* Lines 106-108. *)
DryRun ==
  /\ pc = "edited"
  /\ dry_run
  /\ stdout' = Say("json", JsonDumps(local_state, Indent))
  /\ Return
  /\ UNCHANGED <<platform, environ, profile_id, dry_run, canary, disk, disk0,
                 local_state_path, local_state, f, buffer, exc>>

(* Mutant of OpenWrite: line 110 reached in dry-run mode too. *)
OpenWriteAnyMode ==
  /\ pc = "edited"
  /\ f' = "w"
  /\ disk' = File(EmptyText)
  /\ pc' = "opened"
  /\ UNCHANGED <<platform, environ, profile_id, dry_run, canary, disk0,
                 local_state_path, local_state, buffer, stdout, exc>>

(* Line 110: open(local_state_path, 'w') truncates the file to no bytes. *)
OpenWrite ==
  /\ pc = "edited"
  /\ ~dry_run
  /\ f' = "w"
  /\ disk' = File(EmptyText)
  /\ pc' = "opened"
  /\ UNCHANGED <<platform, environ, profile_id, dry_run, canary, disk0,
                 local_state_path, local_state, buffer, stdout, exc>>

(* Lines 111-112: seek(0) of the empty file, then json.dump writes the     *)
(* rendering through the file object's buffer.  A rendering that fits the  *)
(* buffer leaves the disk as it is; a longer one has a prefix flushed.     *)
Dump ==
  /\ pc = "opened"
  /\ buffer' = JsonDumps(local_state, Indent)
  /\ \/ disk' = disk
     \/ disk' = File(CutText(buffer'))
  /\ pc' = "dumped"
  /\ UNCHANGED <<platform, environ, profile_id, dry_run, canary, disk0,
                 local_state_path, local_state, f, stdout, exc>>

(* Lines 113-115: truncate() flushes the buffer and cuts the file at the   *)
(* position reached, the with block closes f, the success line is printed. *)
TruncateClose ==
  /\ pc = "dumped"
  /\ disk' = File(buffer)
  /\ buffer' = EmptyText
  /\ f' = "closed"
  /\ stdout' = Say("removed", profile_id)
  /\ Return
  /\ UNCHANGED <<platform, environ, profile_id, dry_run, canary, disk0,
                 local_state_path, local_state, exc>>

Next ==
  \/ ResolveKeyError
  \/ FileNotFound
  \/ OpenReadWrite
  \/ DecodeError
  \/ Load
  \/ NoProfiles
  \/ ProfileNotFound
  \/ Edit
  \/ DryRun
  \/ OpenWrite
  \/ Dump
  \/ TruncateClose

Spec == Init /\ [][Next]_vars

---------------------------------------------------------------------------
(* What the properties speak about. *)

LastSaid == IF stdout = <<>> THEN "nothing" ELSE stdout[Len(stdout)][1]

(* Lines 82-104 have run. *)
EditsApplied ==
  \/ pc \in {"edited", "opened", "dumped"}
  \/ pc = "done" /\ LastSaid \in {"json", "removed"}

(* The document the run loaded, as it was before any edit. *)
Loaded0 == JsonLoad(disk0.text)

ProfileOf(ls) == DictGet(ls, "profile", EmptyDict)

OrderOf(ls) == DictGet(ProfileOf(ls), "profiles_order", <<>>)

ActiveOf(ls) == DictGet(ProfileOf(ls), "last_active_profiles", <<>>)

LastUsedOf(ls) == DictGet(ProfileOf(ls), "last_used", PyNone)

GroupsOf(ls) == DictGet(ls, "variations_google_groups", EmptyDict)

Count(s, x) == Cardinality({ i \in 1..Len(s) : s[i] = x })

Others(s, x) == SelectSeq(s, LAMBDA e : e # x)

OtherEntries(d, k) == SelectSeq(d, LAMBDA e : e[1] # k)

Keys(d) == [i \in 1..Len(d) |-> d[i][1]]

(* A document without the five fields the removal touches. *)
Untouched(ls) ==
  LET rest == DictDel(DictDel(DictDel(DictDel(ProfileOf(ls),
                "info_cache"), "profiles_order"), "last_used"), "last_active_profiles")
      top  == IF DictHas(ls, "profile") THEN DictSetExisting(ls, "profile", rest) ELSE ls
  IN  DictDel(top, "variations_google_groups")

---------------------------------------------------------------------------
(* C1 as stated: once the edits have run, the target identifier is in none *)
(* of profile.info_cache, profile.profiles_order,                          *)
(* profile.last_active_profiles and variations_google_groups, whatever     *)
(* those fields held, sequences with repeated identifiers included.        *)
C1_AbsentEverywhere ==
  EditsApplied =>
    /\ ~DictHas(InfoCacheOf(local_state), profile_id)
    /\ ~ListContains(OrderOf(local_state), profile_id)
    /\ ~ListContains(ActiveOf(local_state), profile_id)
    /\ ~DictHas(GroupsOf(local_state), profile_id)

OneLess(n) == IF n = 0 THEN 0 ELSE n - 1

(* C1 amended: once the edits have run, the target identifier is in        *)
(* neither mapping, and each of the two sequences holds it once less than  *)
(* before (not at all when it held it at most once).                       *)
C1_AbsentOrOneLess ==
  EditsApplied =>
    /\ ~DictHas(InfoCacheOf(local_state), profile_id)
    /\ ~DictHas(GroupsOf(local_state), profile_id)
    /\ Count(OrderOf(local_state), profile_id)
         = OneLess(Count(OrderOf(Loaded0), profile_id))
    /\ Count(ActiveOf(local_state), profile_id)
         = OneLess(Count(ActiveOf(Loaded0), profile_id))

C1_Witness ==
  /\ EditsApplied
  /\ Count(OrderOf(Loaded0), profile_id) = 2
  /\ Count(ActiveOf(Loaded0), profile_id) = 1
  /\ DictHas(GroupsOf(Loaded0), profile_id)

(* C2: once the edits have run, profile.last_used is "Default" if it was   *)
(* the target identifier, and otherwise is what it was (absent if absent). *)
C2_LastUsed ==
  EditsApplied =>
    IF LastUsedOf(Loaded0) = profile_id
    THEN LastUsedOf(local_state) = "Default"
    ELSE /\ LastUsedOf(local_state) = LastUsedOf(Loaded0)
         /\ DictHas(ProfileOf(local_state), "last_used")
              = DictHas(ProfileOf(Loaded0), "last_used")

C2_Witness ==
  /\ EditsApplied
  /\ LastUsedOf(Loaded0) = profile_id
  /\ LastUsedOf(local_state) = "Default"

(* The file holds a document with a non-empty info_cache that lacks the    *)
(* target identifier. *)
UnknownProfile0 ==
  /\ disk0.exists
  /\ JsonDecodes(disk0.text)
  /\ Truthy(InfoCacheOf(Loaded0))
  /\ ~DictHas(InfoCacheOf(Loaded0), profile_id)

(* C3: a run on such a file never edits the document in memory, never      *)
(* changes the file, and when it ends normally has printed the 'profile    *)
(* not found' line and nothing else; dry-run or not.                       *)
C3_UnknownProfile ==
  (UnknownProfile0 /\ pc # "raised") =>
    /\ disk = disk0
    /\ f \in {"closed", "r+"}
    /\ pc \in {"start", "load", "loaded", "done"}
    /\ pc \in {"loaded", "done"} => local_state = Loaded0
    /\ pc = "done" => stdout = <<(<<"profile_not_found", profile_id>>)>>

C3_Witness ==
  /\ UnknownProfile0
  /\ pc = "done"
  /\ ~dry_run
  /\ LastSaid = "profile_not_found"
  /\ ListContains(OrderOf(Loaded0), profile_id)
  /\ ListContains(ActiveOf(Loaded0), profile_id)

(* The file holds a document whose profile subtree or info_cache is absent *)
(* or whose info_cache is empty. *)
NoProfiles0 ==
  /\ disk0.exists
  /\ JsonDecodes(disk0.text)
  /\ \/ ~DictHas(Loaded0, "profile")
     \/ ~DictHas(ProfileOf(Loaded0), "info_cache")
     \/ InfoCacheOf(Loaded0) = EmptyDict

(* C4: a run on such a file never edits the document, never changes the    *)
(* file, and when it ends normally has printed the 'no profiles found'     *)
(* line and nothing else, so not the 'profile not found' line.             *)
C4_NoProfiles ==
  (NoProfiles0 /\ pc # "raised") =>
    /\ disk = disk0
    /\ f \in {"closed", "r+"}
    /\ pc \in {"start", "load", "loaded", "done"}
    /\ pc \in {"loaded", "done"} => local_state = Loaded0
    /\ pc = "done" => stdout = <<(<<"no_profiles", PyNone>>)>>

C4_Witness ==
  /\ NoProfiles0
  /\ pc = "done"
  /\ LastSaid = "no_profiles"
  /\ DictHas(ProfileOf(Loaded0), "info_cache")
  /\ ListContains(OrderOf(Loaded0), profile_id)

(* C5: in dry-run mode the file is, in every state of the run, what it was *)
(* when the run started. *)
C5_DryRunKeepsFile == dry_run => disk = disk0

C5_Witness ==
  /\ dry_run
  /\ pc = "done"
  /\ LastSaid = "json"
  /\ local_state # Loaded0

(* C6: after a successful removal that was not a dry run, the file parses  *)
(* to the loaded document at every field but the five touched ones, key    *)
(* order included; in the five, every entry and element other than the     *)
(* target identifier is kept in its order, a field that was absent stays   *)
(* absent except profiles_order, and last_used is kept unless it was the   *)
(* target. *)
C6_RestKept ==
  (pc = "done" /\ LastSaid = "removed") =>
    /\ disk.exists
    /\ JsonDecodes(disk.text)
    /\ LET new == JsonLoad(disk.text)
       IN  /\ Untouched(new) = Untouched(Loaded0)
           /\ Keys(new) = Keys(Loaded0)
           /\ InfoCacheOf(new) = OtherEntries(InfoCacheOf(Loaded0), profile_id)
           /\ GroupsOf(new) = OtherEntries(GroupsOf(Loaded0), profile_id)
           /\ DictHas(new, "variations_google_groups")
                = DictHas(Loaded0, "variations_google_groups")
           /\ Others(OrderOf(new), profile_id) = Others(OrderOf(Loaded0), profile_id)
           /\ Others(ActiveOf(new), profile_id) = Others(ActiveOf(Loaded0), profile_id)
           /\ DictHas(ProfileOf(new), "last_active_profiles")
                = DictHas(ProfileOf(Loaded0), "last_active_profiles")
           /\ LastUsedOf(Loaded0) # profile_id =>
                /\ LastUsedOf(new) = LastUsedOf(Loaded0)
                /\ DictHas(ProfileOf(new), "last_used")
                     = DictHas(ProfileOf(Loaded0), "last_used")

C6_Witness ==
  /\ pc = "done"
  /\ LastSaid = "removed"
  /\ Len(InfoCacheOf(Loaded0)) = 2
  /\ Len(Others(ActiveOf(Loaded0), profile_id)) = 2
  /\ DictHas(GroupsOf(Loaded0), profile_id)

(* C7: in a run that is not a dry run the file is, in every state, either  *)
(* what it was when the run started or the complete rendering of the       *)
(* edited document. *)
C7_NeverHalfWritten ==
  ~dry_run =>
    \/ disk = disk0
    \/ disk = File(JsonDumps(local_state, Indent))

(* C8: each of the five error conditions ends the run normally with the    *)
(* one line of that condition printed and the file as it was; no run ends  *)
(* by an exception. *)
C8_ErrorsReported ==
  /\ pc # "raised"
  /\ exc = "none"
  /\ (pc = "done" /\ ResolveRaises(platform, environ)) =>
       LastSaid = "localappdata_missing"
  /\ (pc = "done" /\ ~ResolveRaises(platform, environ) /\ ~disk0.exists) =>
       stdout = <<(<<"local_state_not_found", local_state_path>>)>> /\ disk = disk0
  /\ (pc = "done" /\ disk0.exists /\ ~JsonDecodes(disk0.text)) =>
       stdout = <<(<<"could_not_decode", local_state_path>>)>> /\ disk = disk0
  /\ (pc = "done" /\ NoProfiles0) =>
       stdout = <<(<<"no_profiles", PyNone>>)>> /\ disk = disk0
  /\ (pc = "done" /\ UnknownProfile0) =>
       stdout = <<(<<"profile_not_found", profile_id>>)>> /\ disk = disk0

(* C9: once the edits have run, a last_active_profiles that held the       *)
(* target identifier is the old sequence without its first occurrence of   *)
(* it (one occurrence less, the rest in order); one that did not hold it   *)
(* is unchanged; an absent one is absent.                                  *)
C9_FirstOccurrence ==
  EditsApplied =>
    LET old == ActiveOf(Loaded0)
        new == ActiveOf(local_state)
    IN  /\ DictHas(ProfileOf(local_state), "last_active_profiles")
             = DictHas(ProfileOf(Loaded0), "last_active_profiles")
        /\ ~ListContains(old, profile_id) => new = old
        /\ ListContains(old, profile_id) =>
             /\ \E i \in 1..Len(old) :
                  /\ old[i] = profile_id
                  /\ \A j \in 1..(i - 1) : old[j] # profile_id
                  /\ new = SubSeq(old, 1, i - 1) \o SubSeq(old, i + 1, Len(old))
             /\ Count(new, profile_id) + 1 = Count(old, profile_id)

C9_Witness ==
  /\ EditsApplied
  /\ Len(ActiveOf(Loaded0)) = 3
  /\ ActiveOf(Loaded0)[1] = profile_id
  /\ ActiveOf(Loaded0)[2] # profile_id
  /\ ActiveOf(Loaded0)[3] = profile_id
  /\ Len(ActiveOf(local_state)) = 2

(* C10: once the edits have run, profile.profiles_order is present: empty  *)
(* if it was absent, unchanged if it did not hold the target identifier;   *)
(* and no exception was raised.                                            *)
C10_OrderPresent ==
  EditsApplied =>
    /\ exc = "none"
    /\ DictHas(ProfileOf(local_state), "profiles_order")
    /\ ~DictHas(ProfileOf(Loaded0), "profiles_order") => OrderOf(local_state) = <<>>
    /\ ~ListContains(OrderOf(Loaded0), profile_id) =>
         OrderOf(local_state) = OrderOf(Loaded0)

C10_Witness ==
  /\ EditsApplied
  /\ ~DictHas(ProfileOf(Loaded0), "profiles_order")
  /\ DictHas(ProfileOf(local_state), "profiles_order")
  /\ OrderOf(local_state) = <<>>

====
